---- MODULE Spec2Model ----
(***************************************************************************)
(* Model of the hover-reactive-3d-cards site:                              *)
(*   - the content catalog (allLogs) as read by the listing page           *)
(*     (src/app/logs/page.tsx) and the detail page                         *)
(*     (src/app/logs/[slug]/page.tsx);                                     *)
(*   - the slug derivation of the Log document type                        *)
(*     (contentlayer.config.ts);                                           *)
(*   - the pointer handlers of the Card component                          *)
(*     (src/components/ui/Card.tsx and its variant-aware revision).        *)
(*                                                                         *)
(* The three parts share no state; each has its own specification          *)
(* (SpecCatalog, SpecSlug, SpecCard) that holds the others' variables      *)
(* still.                                                                  *)
(***************************************************************************)
EXTENDS Integers, Sequences, FiniteSets, TLC

VARIABLES
    allLogs,        \* the array exported by @contentlayer/generated
    origLogs,       \* history: allLogs as the toolchain produced it
    lastList,       \* ordering rendered by the latest LogsPage
    prevList,       \* ordering rendered by the LogsPage before that
    listCalls,      \* number of LogsPage renders so far
    page,           \* outcome of the latest LogPage render
    bodyView,       \* what the latest LogPage render made of the record's body
    tzOffset,       \* the rendering process's zone: minutes east of UTC
    listDays,       \* the calendar day the latest listing shows for each record
    pageDay,        \* the calendar day the latest LogPage render shows
    docSlug,        \* flattened path -> computed slug, per processed document
    mousePosition,  \* the Card's useState value (the target pose)
    prevPosition,   \* history: the value the latest setMousePosition replaced
    lastEvent,      \* history: the pointer event handled last
    cards,          \* the pose of each Card mounted by Home
    prevCards,      \* history: cards before the latest pointer event
    lastCard,       \* history: the Card the latest pointer event went to
    cardEvents,     \* history: the pointer event each Card handled last
    variantProp,    \* the variant prop the animated Card is mounted with
    variant,        \* the variant the animated Card works with
    icon,           \* whether the animated Card is given an icon prop
    rendered,       \* what the latest render of the Card returned
    displayed,      \* the animated rotations of the Card as shown on screen
    renderPending,  \* setMousePosition was called and React has not re-rendered yet
    lastStep,       \* history: the kind of the latest step
    eventCount      \* history: how many pointer events were dispatched

catalogVars == <<allLogs, origLogs, lastList, prevList, listCalls, page, bodyView,
                 tzOffset, listDays, pageDay>>
slugVars    == <<docSlug>>
cardVars    == <<mousePosition, prevPosition, lastEvent>>
homeVars    == <<cards, prevCards, lastCard, cardEvents>>
motionVars  == <<variantProp, variant, icon, rendered, displayed, renderPending, lastStep, eventCount>>
vars        == <<allLogs, origLogs, lastList, prevList, listCalls, page, bodyView,
                 tzOffset, listDays, pageDay,
                 docSlug, mousePosition, prevPosition, lastEvent,
                 cards, prevCards, lastCard, cardEvents,
                 variantProp, variant, icon, rendered, displayed, renderPending, lastStep, eventCount>>

(***************************************************************************)
(* Bounds                                                                  *)
(***************************************************************************)
MaxLogs == 3
MaxListCalls == 3
MaxSegs == 4
MaxDocs == 2
MaxEvents == 3

Abs(n) == IF n < 0 THEN -n ELSE n

(***************************************************************************)
(* JavaScript numbers, as the Card's pointer handlers compute with them.   *)
(* A number is a record                                                    *)
(*   [k |-> "fin", n, d]   the rational n/d in lowest terms, d > 0         *)
(*   [k |-> "nan"], [k |-> "pinf"], [k |-> "ninf"]   (n = 0, d = 1)        *)
(* Rounding of finite results is not modelled.                             *)
(***************************************************************************)
RECURSIVE Gcd(_, _)
Gcd(a, b) == IF b = 0 THEN a ELSE Gcd(b, a % b)

Fin(n, d) ==
    LET g == Gcd(Abs(n), Abs(d))
        sgn == IF d < 0 THEN -1 ELSE 1
    IN  [k |-> "fin", n |-> sgn * (n \div g), d |-> sgn * (d \div g)]

NumInt(i) == [k |-> "fin", n |-> i, d |-> 1]
NaN  == [k |-> "nan",  n |-> 0, d |-> 1]
PInf == [k |-> "pinf", n |-> 0, d |-> 1]
NInf == [k |-> "ninf", n |-> 0, d |-> 1]
Zero == NumInt(0)

\* sign of a non-NaN number
Sign(a) ==
    IF a.k = "pinf" THEN 1
    ELSE IF a.k = "ninf" THEN -1
    ELSE IF a.n > 0 THEN 1 ELSE IF a.n < 0 THEN -1 ELSE 0

Signed(sg) == IF sg > 0 THEN PInf ELSE IF sg < 0 THEN NInf ELSE NaN

\* a - b
JsSub(a, b) ==
    IF a.k = "nan" \/ b.k = "nan" THEN NaN
    ELSE IF a.k = "fin" /\ b.k = "fin" THEN Fin(a.n * b.d - b.n * a.d, a.d * b.d)
    ELSE IF a.k = "fin" THEN Signed(-Sign(b))
    ELSE IF b.k = "fin" THEN a
    ELSE IF a.k = b.k THEN NaN ELSE a

\* a / b, for b that is not a negative zero
JsDiv(a, b) ==
    IF a.k = "nan" \/ b.k = "nan" THEN NaN
    ELSE IF a.k = "fin" /\ b.k = "fin"
         THEN IF b.n = 0 THEN Signed(Sign(a)) ELSE Fin(a.n * b.d, a.d * b.n)
    ELSE IF a.k = "fin" THEN Zero
    ELSE IF b.k = "fin" THEN (IF Sign(b) < 0 THEN Signed(-Sign(a)) ELSE a)
    ELSE NaN

\* a * b
JsMul(a, b) ==
    IF a.k = "nan" \/ b.k = "nan" THEN NaN
    ELSE IF a.k = "fin" /\ b.k = "fin" THEN Fin(a.n * b.n, a.d * b.d)
    ELSE Signed(Sign(a) * Sign(b))

Neutral == [x |-> Zero, y |-> Zero, mouseX |-> Zero, mouseY |-> Zero]

NoEvent == [type |-> "none", clientX |-> 0, clientY |-> 0,
            left |-> 0, top |-> 0, width |-> 0, height |-> 0]
LeaveEvent == [NoEvent EXCEPT !.type = "leave"]

\* no source document processed yet
NoDocs == [p \in {} |-> <<>>]

\* the Cards Home mounts, named by their variant
CardIds == {"default", "accent", "dark"}

\* every Card starts from its own useState value
MountedCards == [c \in CardIds |-> Neutral]

\* the values the variant prop can take
Variants == {"default", "accent", "dark"}

\* what a parent can pass: one of them, or no variant prop at all
VariantProps == Variants \cup {"omitted"}

\* a Card without a variant prop works as the accent one
VariantOrAccent(prop) == IF prop = "omitted" THEN "accent" ELSE prop

\* the destructuring default: variant = 'default'
VariantOrDefault(prop) == IF prop = "omitted" THEN "default" ELSE prop

variantConfigs ==
    [default |-> [stiffness |-> 300, damping |-> 20, shadowColor |-> "rgba(0, 0, 0, 0.2)"],
     accent  |-> [stiffness |-> 400, damping |-> 15, shadowColor |-> "rgba(0, 0, 0, 0.3)"],
     dark    |-> [stiffness |-> 250, damping |-> 25, shadowColor |-> "rgba(0, 0, 0, 0.4)"]]

\* {icon && ...}: without an icon prop the icon layer is not rendered
NoIconLayer == [present |-> FALSE, y |-> Zero, rotateZ |-> Zero, stiffness |-> 0, damping |-> 0]

\* the depth highlight turned by the other rotation
ViewAngleFromY(pose, v, hasIcon) ==
    LET config == variantConfigs[v]
    IN  [rotateX |-> pose.x,
         rotateY |-> pose.y,
         shadowX |-> JsDiv(pose.y, NumInt(10)),
         shadowY |-> JsDiv(pose.x, NumInt(10)),
         shadowBlur |-> 20,
         shadowColor |-> config.shadowColor,
         stiffness |-> config.stiffness,
         damping |-> config.damping,
         spotX |-> pose.mouseX,
         spotY |-> pose.mouseY,
         angle |-> JsMul(pose.y, NumInt(10)),
         iconLayer |-> IF hasIcon
                       THEN [present |-> TRUE,
                             y |-> JsMul(pose.x, NumInt(2)),
                             rotateZ |-> JsMul(pose.y, NumInt(2)),
                             stiffness |-> 200,
                             damping |-> 15]
                       ELSE NoIconLayer]

\* the icon layer on the spring of the variant
ViewIconOnBodySpring(pose, v, hasIcon) ==
    LET config == variantConfigs[v]
    IN  [rotateX |-> pose.x,
         rotateY |-> pose.y,
         shadowX |-> JsDiv(pose.y, NumInt(10)),
         shadowY |-> JsDiv(pose.x, NumInt(10)),
         shadowBlur |-> 20,
         shadowColor |-> config.shadowColor,
         stiffness |-> config.stiffness,
         damping |-> config.damping,
         spotX |-> pose.mouseX,
         spotY |-> pose.mouseY,
         angle |-> JsMul(pose.x, NumInt(10)),
         iconLayer |-> IF hasIcon
                       THEN [present |-> TRUE,
                             y |-> JsMul(pose.x, NumInt(2)),
                             rotateZ |-> JsMul(pose.y, NumInt(2)),
                             stiffness |-> config.stiffness,
                             damping |-> config.damping]
                       ELSE NoIconLayer]

\* What one render of the Card returns for the state pose, the variant v
\* and an icon prop that is given or not:
\*   rotateX, rotateY            the animate targets of the motion.div
\*   shadowX, shadowY, shadowBlur, shadowColor
\*                               the animate target boxShadow, its lengths in
\*                               the order CSS reads them: offset-x, offset-y,
\*                               blur radius
\*   stiffness, damping          the spring transition
\*   spotX, spotY                the centre of the radial gradient (style)
\*   angle                       the angle of the linear gradient (style)
\*   iconLayer                   the animate targets y and rotateZ of the icon's
\*                               motion.div and its spring transition
View(pose, v, hasIcon) ==
    LET config == variantConfigs[v]
    IN  [rotateX |-> pose.x,
         rotateY |-> pose.y,
         shadowX |-> JsDiv(pose.y, NumInt(10)),
         shadowY |-> JsDiv(pose.x, NumInt(10)),
         shadowBlur |-> 20,
         shadowColor |-> config.shadowColor,
         stiffness |-> config.stiffness,
         damping |-> config.damping,
         spotX |-> pose.mouseX,
         spotY |-> pose.mouseY,
         angle |-> JsMul(pose.x, NumInt(10)),
         iconLayer |-> IF hasIcon
                       THEN [present |-> TRUE,
                             y |-> JsMul(pose.x, NumInt(2)),
                             rotateZ |-> JsMul(pose.y, NumInt(2)),
                             stiffness |-> 200,
                             damping |-> 15]
                       ELSE NoIconLayer]

\* An animated value: what is shown now, the value the running animation
\* started from, its target, and how many frames of it have been shown.
\* A value at rest has from = to = value.
AtValue(q) == [value |-> q, from |-> q, to |-> q, i |-> 0]

\* the animated rotations of a Card that has come to rest at the animate
\* targets of view
RestingAt(view) == [rotateX |-> AtValue(view.rotateX), rotateY |-> AtValue(view.rotateY)]

(***************************************************************************)
(* Dates.  A Log's date field is an ISO calendar date; parseISO(...).      *)
(* getTime() turns it into milliseconds since the epoch, a whole number    *)
(* of days for a calendar date.  Times are kept in days here: the          *)
(* millisecond count is the same number scaled by the length of a day,     *)
(* which a double holds exactly.                                           *)
(***************************************************************************)
\* days from 1970-01-01 to y-m-d in the proleptic Gregorian calendar
DaysFromCivil(y, m, d) ==
    LET yy  == IF m <= 2 THEN y - 1 ELSE y
        era == yy \div 400
        yoe == yy - era * 400
        mp  == IF m > 2 THEN m - 3 ELSE m + 9
        doy == (153 * mp + 2) \div 5 + d - 1
        doe == yoe * 365 + yoe \div 4 - yoe \div 100 + doy
    IN  era * 146097 + doe - 719468

\* parseISO(date).getTime(), in days
ParseISOTime(date) == DaysFromCivil(date.y, date.m, date.d)

\* the calendar date that is z days after 1970-01-01
CivilFromDays(z) ==
    LET zz  == z + 719468
        era == zz \div 146097
        doe == zz - era * 146097
        yoe == (doe - doe \div 1460 + doe \div 36524 - doe \div 146096) \div 365
        doy == doe - (365 * yoe + yoe \div 4 - yoe \div 100)
        mp  == (5 * doy + 2) \div 153
        d   == doy - (153 * mp + 2) \div 5 + 1
        m   == IF mp < 10 THEN mp + 3 ELSE mp - 9
        y   == yoe + era * 400 + (IF m <= 2 THEN 1 ELSE 0)
    IN  [y |-> y, m |-> m, d |-> d]

\* The instant parseISO(date) denotes, in minutes since the epoch.  A field
\* of type 'date' is generated as the ISO string of the instant, for a
\* calendar date its midnight in UTC ("2025-03-30T00:00:00.000Z").
InstantOf(date) == ParseISOTime(date) * 1440

\* the year, month and day that formatting the instant t shows in a zone
\* that is offset minutes east of UTC
DayInZone(t, offset) == CivilFromDays((t + offset) \div 1440)

\* formatInTimeZone(parseISO(date), 'UTC', "MMM d, yyyy")
ListingDay(date) == DayInZone(InstantOf(date), 0)

\* format(parseISO(date), 'MMMM d, yyyy'): the zone of the process
DetailDay(date, offset) == DayInZone(InstantOf(date), offset)

\* zones of the rendering process: New York (EST), UTC, Paris (CET),
\* Kolkata
TzOffsets == {-300, 0, 60, 330}

\* no date has been shown
NoDay == [y |-> 0, m |-> 0, d |-> 0]

Dates == { [y |-> 2024, m |-> 1, d |-> 1],
           [y |-> 2025, m |-> 1, d |-> 1],
           [y |-> 2025, m |-> 3, d |-> 30] }

Slugs == {"a", "b"}
SlugArgs == Slugs \cup {"missing"}

\* the records of a catalog of n documents: id is the document's position
\* in the collection as generated (contentlayer's _id)
Catalogs ==
    UNION { { [i \in 1..n |-> [id |-> i, slug |-> f[i][1], date |-> f[i][2]]] :
                f \in [1..n -> Slugs \X Dates] } : n \in 0..MaxLogs }

(***************************************************************************)
(* sortLogs: logs.sort((a, b) => time(b.date) - time(a.date)).             *)
(* Array.prototype.sort is stable and sorts the array it is called on;     *)
(* its result is that same array.                                          *)
(***************************************************************************)
\* the comparator with its operands exchanged: oldest first
CompareLogsAscending(a, b) == ParseISOTime(a.date) - ParseISOTime(b.date)

\* the comparator: negative when a goes first
CompareLogs(a, b) == ParseISOTime(b.date) - ParseISOTime(a.date)

\* x is placed before the elements that compare equal to it
InsertUnstable(x, s) ==
    LET later == { i \in 1..Len(s) : CompareLogs(s[i], x) >= 0 }
        k == IF later = {} THEN Len(s) + 1
             ELSE CHOOSE i \in later : \A j \in later : i <= j
    IN  SubSeq(s, 1, k - 1) \o <<x>> \o SubSeq(s, k, Len(s))

\* x is placed after every element that does not compare greater than it
InsertStable(x, s) ==
    LET later == { i \in 1..Len(s) : CompareLogs(s[i], x) > 0 }
        k == IF later = {} THEN Len(s) + 1
             ELSE CHOOSE i \in later : \A j \in later : i <= j
    IN  SubSeq(s, 1, k - 1) \o <<x>> \o SubSeq(s, k, Len(s))

RECURSIVE SortFrom(_, _)
SortFrom(s, acc) ==
    IF s = <<>> THEN acc ELSE SortFrom(Tail(s), InsertStable(Head(s), acc))

ArraySort(s) == SortFrom(s, <<>>)

\* a listing that keeps only its newest record in the array
SortLogsKeepsNewest(logs) ==
    IF logs = <<>> THEN logs ELSE SubSeq(SortFrom(logs, <<>>), 1, 1)

\* the array sortLogs leaves behind in its argument (and returns)
SortLogs(logs) == ArraySort(logs)

(***************************************************************************)
(* LogPage: allLogs.find(log => log.slug === params.slug), notFound() on   *)
(* a miss (notFound throws, the render stops there), else the record's     *)
(* title, date and body are read.                                          *)
(***************************************************************************)
\* index of the first record with the slug, 0 for undefined
FindIndex(logs, slug) ==
    LET hits == { i \in 1..Len(logs) : logs[i].slug = slug }
    IN  IF hits = {} THEN 0 ELSE CHOOSE i \in hits : \A j \in hits : i <= j

IdlePage == [arg |-> "", outcome |-> "idle", fieldsRead |-> FALSE, shown |-> 0]

\* no body has been rendered
NoBody == [code |-> "", outcome |-> "none"]

LogPageUnguarded(logs, slug) ==
    LET i == FindIndex(logs, slug)
    IN  IF i = 0
        THEN [arg |-> slug, outcome |-> "typeError", fieldsRead |-> TRUE, shown |-> 0]
        ELSE [arg |-> slug, outcome |-> "rendered", fieldsRead |-> TRUE,
              shown |-> logs[i].id]

LogPageRender(logs, slug) ==
    LET i == FindIndex(logs, slug)
    IN  IF i = 0
        THEN [arg |-> slug, outcome |-> "notFound", fieldsRead |-> FALSE, shown |-> 0]
        ELSE [arg |-> slug, outcome |-> "rendered", fieldsRead |-> TRUE,
              shown |-> logs[i].id]

InitCatalog ==
    /\ allLogs \in Catalogs
    /\ origLogs = allLogs
    /\ lastList = <<>>
    /\ prevList = <<>>
    /\ listCalls = 0
    /\ page = IdlePage
    /\ bodyView = NoBody
    /\ tzOffset \in TzOffsets
    /\ listDays = <<>>
    /\ pageDay = NoDay
    /\ docSlug = NoDocs
    /\ mousePosition = Neutral
    /\ prevPosition = Neutral
    /\ lastEvent = NoEvent
    /\ cards = MountedCards
    /\ prevCards = MountedCards
    /\ lastCard = "none"
    /\ cardEvents = [c \in CardIds |-> NoEvent]
    /\ variantProp = "default"
    /\ variant = "default"
    /\ icon = FALSE
    /\ rendered = View(Neutral, "default", FALSE)
    /\ displayed = RestingAt(View(Neutral, "default", FALSE))
    /\ renderPending = FALSE
    /\ lastStep = "mount"
    /\ eventCount = 0

\* LogsPage: const logs = sortLogs(allLogs); logs is allLogs itself
LogsPage ==
    /\ listCalls < MaxListCalls
    /\ allLogs' = SortLogs(allLogs)
    /\ lastList' = allLogs'
    /\ prevList' = lastList
    /\ listCalls' = listCalls + 1
    /\ listDays' = [i \in 1..Len(allLogs') |-> ListingDay(allLogs'[i].date)]
    /\ UNCHANGED <<origLogs, page, bodyView, tzOffset, pageDay>>
    /\ UNCHANGED <<slugVars, cardVars, homeVars, motionVars>>

(***************************************************************************)
(* MDXContent({ code }): null for a falsy code; otherwise, inside a try     *)
(* block, useMDXComponent(code) and the element <Component ... />, and in   *)
(* the catch block the placeholder <div>Error rendering content</div>.      *)
(* A body is one of: "" (no code), "ok", "evalThrows" (useMDXComponent      *)
(* throws on it), "renderThrows" (the component it yields throws when it    *)
(* is rendered).                                                           *)
(***************************************************************************)
BodyCodes == {"", "ok", "evalThrows", "renderThrows"}

\* the value MDXContent returns
MDXContent(code) ==
    IF code = "" THEN "null"
    ELSE IF code = "evalThrows" THEN "placeholder"
    ELSE "element"

\* what the page shows for the body: the element MDXContent returned is
\* rendered after MDXContent has returned, outside its try block
BodyOutcome(code) ==
    LET returned == MDXContent(code)
    IN  IF returned = "element"
        THEN (IF code = "renderThrows" THEN "crash" ELSE "content")
        ELSE returned

\* code is the body of the record the slug selects, if any
LogPage(slug, code) ==
    /\ page' = LogPageRender(allLogs, slug)
    /\ bodyView' = IF page'.outcome = "rendered"
                   THEN [code |-> code, outcome |-> BodyOutcome(code)]
                   ELSE NoBody
    /\ pageDay' = IF page'.outcome = "rendered"
                  THEN DetailDay(allLogs[FindIndex(allLogs, slug)].date, tzOffset)
                  ELSE NoDay
    /\ UNCHANGED <<allLogs, origLogs, lastList, prevList, listCalls, tzOffset, listDays>>
    /\ UNCHANGED <<slugVars, cardVars, homeVars, motionVars>>

(***************************************************************************)
(* The Log document type: every file matched by logs/**/*.mdx gets         *)
(*   slug = doc._raw.flattenedPath.replace('logs/hover-3d-cards/', '').    *)
(* Strings are sequences of characters; a flattened path is its segments   *)
(* joined by "/".                                                          *)
(***************************************************************************)
LogsSeg  == <<"l", "o", "g", "s">>
HoverSeg == <<"h", "o", "v", "e", "r", "-", "3", "d", "-", "c", "a", "r", "d", "s">>
FileSeg  == <<"a">>
Segments == {LogsSeg, HoverSeg, FileSeg}

SlugPrefix == LogsSeg \o <<"/">> \o HoverSeg \o <<"/">>

RECURSIVE JoinPath(_)
JoinPath(segs) ==
    IF Len(segs) = 1 THEN segs[1]
    ELSE segs[1] \o <<"/">> \o JoinPath(Tail(segs))

\* flattened paths of the files under logs/
FlattenedPaths ==
    { JoinPath(ss) : ss \in { t \in UNION { [1..n -> Segments] : n \in 2..MaxSegs } :
                               t[1] = LogsSeg } }

\* String.prototype.replace with a string pattern: the first occurrence only
ReplaceFirst(s, pat, rep) ==
    LET n == Len(pat)
        at == { i \in 1..(Len(s) - n + 1) : SubSeq(s, i, i + n - 1) = pat }
    IN  IF at = {} THEN s
        ELSE LET i == CHOOSE k \in at : \A j \in at : k <= j
             IN  SubSeq(s, 1, i - 1) \o rep \o SubSeq(s, i + n, Len(s))

SlugOf(flattenedPath) == ReplaceFirst(flattenedPath, SlugPrefix, <<>>)

\* no content is loaded
InitSlug ==
    /\ docSlug = NoDocs
    /\ allLogs = <<>>
    /\ origLogs = <<>>
    /\ lastList = <<>>
    /\ prevList = <<>>
    /\ listCalls = 0
    /\ page = IdlePage
    /\ bodyView = NoBody
    /\ tzOffset = 0
    /\ listDays = <<>>
    /\ pageDay = NoDay
    /\ mousePosition = Neutral
    /\ prevPosition = Neutral
    /\ lastEvent = NoEvent
    /\ cards = MountedCards
    /\ prevCards = MountedCards
    /\ lastCard = "none"
    /\ cardEvents = [c \in CardIds |-> NoEvent]
    /\ variantProp = "default"
    /\ variant = "default"
    /\ icon = FALSE
    /\ rendered = View(Neutral, "default", FALSE)
    /\ displayed = RestingAt(View(Neutral, "default", FALSE))
    /\ renderPending = FALSE
    /\ lastStep = "mount"
    /\ eventCount = 0

\* the toolchain processes one more source document
AddDocument(p) ==
    /\ p \notin DOMAIN docSlug
    /\ Cardinality(DOMAIN docSlug) < MaxDocs
    /\ docSlug' = [q \in DOMAIN docSlug \cup {p} |->
                      IF q = p THEN SlugOf(p) ELSE docSlug[q]]
    /\ UNCHANGED <<catalogVars, cardVars, homeVars, motionVars>>

(***************************************************************************)
(* The Card's pointer handlers                                             *)
(***************************************************************************)
\* the pointer positions and surface rectangles of the events
ClientXs == {0, 2, 400}
ClientYs == {0, 2, 200}
RectOrigins == { <<0, 0>>, <<1, 2>> }
RectSizes == {0, 4, 400}

MoveEvents ==
    { [type |-> "move", clientX |-> px, clientY |-> py,
       left |-> o[1], top |-> o[2], width |-> w, height |-> h] :
        px \in ClientXs, py \in ClientYs, o \in RectOrigins,
        w \in RectSizes, h \in RectSizes }

\* rotateX taken from the horizontal offset and rotateY from the vertical one
MovePoseSwapped(e) ==
    LET mouseX == JsSub(NumInt(e.clientX), NumInt(e.left))
        mouseY == JsSub(NumInt(e.clientY), NumInt(e.top))
        width  == NumInt(e.width)
        height == NumInt(e.height)
        rotateX == JsMul(JsDiv(JsSub(mouseX, JsDiv(width, NumInt(2))), width), NumInt(10))
        rotateY == JsMul(JsDiv(JsSub(mouseY, JsDiv(height, NumInt(2))), height), NumInt(10))
    IN  [x |-> rotateX, y |-> rotateY, mouseX |-> mouseX, mouseY |-> mouseY]

\* the local coordinates taken from the surface's centre
MovePoseFromCentre(e) ==
    LET width  == NumInt(e.width)
        height == NumInt(e.height)
        mouseX == JsSub(JsSub(NumInt(e.clientX), NumInt(e.left)), JsDiv(width, NumInt(2)))
        mouseY == JsSub(JsSub(NumInt(e.clientY), NumInt(e.top)), JsDiv(height, NumInt(2)))
        rotateX == JsMul(JsDiv(mouseY, height), NumInt(10))
        rotateY == JsMul(JsDiv(mouseX, width), NumInt(10))
    IN  [x |-> rotateX, y |-> rotateY, mouseX |-> mouseX, mouseY |-> mouseY]

\* the offsets scaled by 20
MovePoseDouble(e) ==
    LET mouseX == JsSub(NumInt(e.clientX), NumInt(e.left))
        mouseY == JsSub(NumInt(e.clientY), NumInt(e.top))
        width  == NumInt(e.width)
        height == NumInt(e.height)
        rotateX == JsMul(JsDiv(JsSub(mouseY, JsDiv(height, NumInt(2))), height), NumInt(20))
        rotateY == JsMul(JsDiv(JsSub(mouseX, JsDiv(width, NumInt(2))), width), NumInt(20))
    IN  [x |-> rotateX, y |-> rotateY, mouseX |-> mouseX, mouseY |-> mouseY]

\* the pointer kept as its normalized offsets from the centre
MovePoseOffsets(e) ==
    LET mouseX == JsSub(NumInt(e.clientX), NumInt(e.left))
        mouseY == JsSub(NumInt(e.clientY), NumInt(e.top))
        width  == NumInt(e.width)
        height == NumInt(e.height)
        offsetY == JsDiv(JsSub(mouseY, JsDiv(height, NumInt(2))), height)
        offsetX == JsDiv(JsSub(mouseX, JsDiv(width, NumInt(2))), width)
    IN  [x |-> JsMul(offsetY, NumInt(10)), y |-> JsMul(offsetX, NumInt(10)),
         mouseX |-> offsetX, mouseY |-> offsetY]

\* the whole size subtracted where half of it belongs
MovePoseNoHalf(e) ==
    LET mouseX == JsSub(NumInt(e.clientX), NumInt(e.left))
        mouseY == JsSub(NumInt(e.clientY), NumInt(e.top))
        width  == NumInt(e.width)
        height == NumInt(e.height)
        rotateX == JsMul(JsDiv(JsSub(mouseY, height), height), NumInt(10))
        rotateY == JsMul(JsDiv(JsSub(mouseX, width), width), NumInt(10))
    IN  [x |-> rotateX, y |-> rotateY, mouseX |-> mouseX, mouseY |-> mouseY]

\* the value handleMouseMove passes to setMousePosition
MovePose(e) ==
    LET mouseX == JsSub(NumInt(e.clientX), NumInt(e.left))
        mouseY == JsSub(NumInt(e.clientY), NumInt(e.top))
        width  == NumInt(e.width)
        height == NumInt(e.height)
        rotateX == JsMul(JsDiv(JsSub(mouseY, JsDiv(height, NumInt(2))), height), NumInt(10))
        rotateY == JsMul(JsDiv(JsSub(mouseX, JsDiv(width, NumInt(2))), width), NumInt(10))
    IN  [x |-> rotateX, y |-> rotateY, mouseX |-> mouseX, mouseY |-> mouseY]

\* a leave that resets a tilted Card only
LeavePoseIfTilted(prior) == IF prior.x = Zero THEN prior ELSE Neutral

\* only the pointer coordinates are reset, the rotation stays
LeavePoseKeepsRotation(prior) == [prior EXCEPT !.mouseX = Zero, !.mouseY = Zero]

\* only the rotation is reset, the pointer coordinates stay
LeavePoseKeepsPointer(prior) == [prior EXCEPT !.x = Zero, !.y = Zero]

\* the value handleMouseLeave passes to setMousePosition, whatever the
\* state was before
LeavePose(prior) == Neutral

\* useState({ x: 0, y: 0 }): the pointer coordinates are left undefined
InitialPoseRotationOnly == [x |-> Zero, y |-> Zero, mouseX |-> NaN, mouseY |-> NaN]

\* the argument of useState: the pose of a Card as mounted
InitialPose == [x |-> Zero, y |-> Zero, mouseX |-> Zero, mouseY |-> Zero]

\* the Card as mounted, on a page with no content loaded
InitCard ==
    /\ mousePosition = InitialPose
    /\ prevPosition = Neutral
    /\ lastEvent = NoEvent
    /\ cards = MountedCards
    /\ prevCards = MountedCards
    /\ lastCard = "none"
    /\ cardEvents = [c \in CardIds |-> NoEvent]
    /\ variantProp = "default"
    /\ variant = "default"
    /\ icon = FALSE
    /\ rendered = View(Neutral, "default", FALSE)
    /\ displayed = RestingAt(View(Neutral, "default", FALSE))
    /\ renderPending = FALSE
    /\ lastStep = "mount"
    /\ eventCount = 0
    /\ docSlug = NoDocs
    /\ allLogs = <<>>
    /\ origLogs = <<>>
    /\ lastList = <<>>
    /\ prevList = <<>>
    /\ listCalls = 0
    /\ page = IdlePage
    /\ bodyView = NoBody
    /\ tzOffset = 0
    /\ listDays = <<>>
    /\ pageDay = NoDay

HandleMouseMove(e) ==
    /\ mousePosition' = MovePose(e)
    /\ prevPosition' = mousePosition
    /\ lastEvent' = e
    /\ UNCHANGED <<catalogVars, slugVars, homeVars, motionVars>>

HandleMouseLeave ==
    /\ mousePosition' = LeavePose(mousePosition)
    /\ prevPosition' = mousePosition
    /\ lastEvent' = LeaveEvent
    /\ UNCHANGED <<catalogVars, slugVars, homeVars, motionVars>>

(***************************************************************************)
(* Home: three Cards side by side, each a call of the Card component with   *)
(* its own useState cell.                                                  *)
(***************************************************************************)
\* pointer-moves over a 4x4 surface at the origin
HomeEvents ==
    { e \in MoveEvents : /\ e.width = 4 /\ e.height = 4
                         /\ e.left = 0 /\ e.top = 0
                         /\ e.clientY = 2 }

\* one cell held outside the component and shared by its instances
SetPoseShared(all, c, pose) == [k \in DOMAIN all |-> pose]

\* setMousePosition of the Card c: the cell of that instance only
SetPose(all, c, pose) == [all EXCEPT ![c] = pose]

InitHome ==
    /\ cards = MountedCards
    /\ prevCards = MountedCards
    /\ lastCard = "none"
    /\ cardEvents = [c \in CardIds |-> NoEvent]
    /\ variantProp = "default"
    /\ variant = "default"
    /\ icon = FALSE
    /\ rendered = View(Neutral, "default", FALSE)
    /\ displayed = RestingAt(View(Neutral, "default", FALSE))
    /\ renderPending = FALSE
    /\ lastStep = "mount"
    /\ eventCount = 0
    /\ mousePosition = Neutral
    /\ prevPosition = Neutral
    /\ lastEvent = NoEvent
    /\ docSlug = NoDocs
    /\ allLogs = <<>>
    /\ origLogs = <<>>
    /\ lastList = <<>>
    /\ prevList = <<>>
    /\ listCalls = 0
    /\ page = IdlePage
    /\ bodyView = NoBody
    /\ tzOffset = 0
    /\ listDays = <<>>
    /\ pageDay = NoDay

\* handleMouseMove of the Card c
CardMouseMove(c, e) ==
    /\ cards' = SetPose(cards, c, MovePose(e))
    /\ prevCards' = cards
    /\ lastCard' = c
    /\ cardEvents' = [cardEvents EXCEPT ![c] = e]
    /\ UNCHANGED <<catalogVars, slugVars, cardVars, motionVars>>

\* handleMouseLeave of the Card c
CardMouseLeave(c) ==
    /\ cards' = SetPose(cards, c, LeavePose(cards[c]))
    /\ prevCards' = cards
    /\ lastCard' = c
    /\ cardEvents' = [cardEvents EXCEPT ![c] = LeaveEvent]
    /\ UNCHANGED <<catalogVars, slugVars, cardVars, motionVars>>

(***************************************************************************)
(* The Card on screen.  A pointer handler only calls setMousePosition;     *)
(* React re-renders the Card in a later step (mousemove and mouseleave are *)
(* continuous events, their updates are not flushed inside the handler);   *)
(* the render hands new animate targets to the motion.div and new styles   *)
(* to the two overlays; framer-motion then moves the animated values on    *)
(* its animation frames.                                                   *)
(*                                                                         *)
(* The spring itself is framer-motion's.  It is kept as a sampled step     *)
(* response: an animation starts at the value shown when the target        *)
(* changed and ends exactly on the target after finitely many frames.      *)
(* With the mass of 1 the Card leaves at its default, every variant has    *)
(* damping^2 < 4 * stiffness, an under-damped spring, so the response      *)
(* passes the target once before it settles.  The velocity carried over    *)
(* when an animation is interrupted is not modelled.                       *)
(***************************************************************************)
\* pointer-moves over a 4x4 surface at the origin: to its top left
\* corner, to the middle of its top edge and to the middle of its left edge
MotionEvents ==
    { e \in MoveEvents : /\ e.width = 4 /\ e.height = 4
                         /\ e.left = 0 /\ e.top = 0
                         /\ e.clientX \in {0, 2} /\ e.clientY \in {0, 2}
                         /\ ~(e.clientX = 2 /\ e.clientY = 2) }

\* a wrapper that lets an event through only when no update is waiting
DeliversWhenIdle(type, pending) == ~pending

\* onMouseMove and onMouseLeave are the handlers themselves: no throttle,
\* no debounce, every dispatched event runs its handler
Delivers(type, pending) == TRUE

\* the step response of the spring in eighths of the way from the start
\* to the target, one sample per frame
SpringSamples(config) ==
    IF config.damping * config.damping < 4 * config.stiffness
    THEN <<2, 5, 8, 9, 8>>
    ELSE <<3, 6, 8>>

\* from + (to - from) * p / 8, for finite from and to, as one fraction
SpringValue(from, to, p) ==
    IF from.k = "fin" /\ to.k = "fin"
    THEN Fin((8 - p) * from.n * to.d + p * to.n * from.d, 8 * from.d * to.d)
    ELSE NaN

\* the value is set to the target at once, as a style would do
RetargetSnap(anim, target) == AtValue(target)

\* a render with the animate target: an unchanged target leaves the
\* animation alone, a new one starts an animation from the value shown
Retarget(anim, target) ==
    IF anim.to = target THEN anim
    ELSE [value |-> anim.value, from |-> anim.value, to |-> target, i |-> 0]

\* one animation frame of one value
StepAnim(anim, samples) ==
    IF anim.from = anim.to THEN anim
    ELSE IF anim.i + 1 = Len(samples) THEN AtValue(anim.to)
    ELSE [anim EXCEPT !.i = @ + 1,
                      !.value = SpringValue(anim.from, anim.to, samples[anim.i + 1])]

Animating(shown) ==
    \/ shown.rotateX.from # shown.rotateX.to
    \/ shown.rotateY.from # shown.rotateY.to

\* a Card of any variant, just mounted
InitMotion ==
    /\ variantProp \in VariantProps
    /\ variant = VariantOrDefault(variantProp)
    /\ icon \in BOOLEAN
    /\ mousePosition = InitialPose
    /\ rendered = View(InitialPose, variant, icon)
    /\ displayed = RestingAt(View(InitialPose, variant, icon))
    /\ renderPending = FALSE
    /\ lastStep = "mount"
    /\ eventCount = 0
    /\ prevPosition = Neutral
    /\ lastEvent = NoEvent
    /\ cards = MountedCards
    /\ prevCards = MountedCards
    /\ lastCard = "none"
    /\ cardEvents = [c \in CardIds |-> NoEvent]
    /\ docSlug = NoDocs
    /\ allLogs = <<>>
    /\ origLogs = <<>>
    /\ lastList = <<>>
    /\ prevList = <<>>
    /\ listCalls = 0
    /\ page = IdlePage
    /\ bodyView = NoBody
    /\ tzOffset = 0
    /\ listDays = <<>>
    /\ pageDay = NoDay

\* the browser dispatches a mousemove over the Card
MotionMouseMove(e) ==
    /\ eventCount < MaxEvents
    /\ mousePosition' = IF Delivers("move", renderPending) THEN MovePose(e) ELSE mousePosition
    /\ renderPending' = (renderPending \/ Delivers("move", renderPending))
    /\ prevPosition' = mousePosition
    /\ lastEvent' = e
    /\ lastStep' = "move"
    /\ eventCount' = eventCount + 1
    /\ UNCHANGED <<variantProp, variant, icon, rendered, displayed>>
    /\ UNCHANGED <<catalogVars, slugVars, homeVars>>

\* the browser dispatches a mouseleave
MotionMouseLeave ==
    /\ eventCount < MaxEvents
    /\ mousePosition' = IF Delivers("leave", renderPending)
                        THEN LeavePose(mousePosition) ELSE mousePosition
    /\ renderPending' = (renderPending \/ Delivers("leave", renderPending))
    /\ prevPosition' = mousePosition
    /\ lastEvent' = LeaveEvent
    /\ lastStep' = "leave"
    /\ eventCount' = eventCount + 1
    /\ UNCHANGED <<variantProp, variant, icon, rendered, displayed>>
    /\ UNCHANGED <<catalogVars, slugVars, homeVars>>

\* React re-renders the Card with the state set last
Render ==
    /\ renderPending
    /\ rendered' = View(mousePosition, variant, icon)
    /\ displayed' = [rotateX |-> Retarget(displayed.rotateX, rendered'.rotateX),
                     rotateY |-> Retarget(displayed.rotateY, rendered'.rotateY)]
    /\ renderPending' = FALSE
    /\ lastStep' = "render"
    /\ UNCHANGED <<variantProp, variant, icon, eventCount>>
    /\ UNCHANGED <<catalogVars, slugVars, cardVars, homeVars>>

\* one animation frame of framer-motion
Frame ==
    /\ Animating(displayed)
    /\ displayed' = [rotateX |-> StepAnim(displayed.rotateX, SpringSamples(variantConfigs[variant])),
                     rotateY |-> StepAnim(displayed.rotateY, SpringSamples(variantConfigs[variant]))]
    /\ lastStep' = "frame"
    /\ UNCHANGED <<variantProp, variant, icon, rendered, renderPending, eventCount>>
    /\ UNCHANGED <<catalogVars, slugVars, cardVars, homeVars>>

(***************************************************************************)
(* Specifications                                                          *)
(***************************************************************************)
NextCatalog == LogsPage \/ \E slug \in SlugArgs, code \in BodyCodes : LogPage(slug, code)
SpecCatalog == InitCatalog /\ [][NextCatalog]_vars

NextSlug == \E p \in FlattenedPaths : AddDocument(p)
SpecSlug == InitSlug /\ [][NextSlug]_vars

NextCard == HandleMouseLeave \/ \E e \in MoveEvents : HandleMouseMove(e)
SpecCard == InitCard /\ [][NextCard]_vars

NextHome ==
    \/ \E c \in CardIds : CardMouseLeave(c)
    \/ \E c \in CardIds, e \in HomeEvents : CardMouseMove(c, e)
SpecHome == InitHome /\ [][NextHome]_vars

NextMotion ==
    \/ \E e \in MotionEvents : MotionMouseMove(e)
    \/ MotionMouseLeave
    \/ Render
    \/ Frame
SpecMotion == InitMotion /\ [][NextMotion]_vars

\* React runs a scheduled render, and the browser keeps delivering
\* animation frames while the page is shown
SpecMotionLive == SpecMotion /\ WF_vars(Render) /\ WF_vars(Frame)

(***************************************************************************)
(* Properties of the catalog (SpecCatalog)                                 *)
(***************************************************************************)

\* C1: list() never mutates the shared collection: allLogs always holds the
\* records it was generated with, in the same order.  (Refuted: sortLogs
\* sorts allLogs itself.)
C1_CatalogNeverMutated == allLogs = origLogs

\* the records of s are those of t, each exactly once
IsPermutation(s, t) ==
    /\ Len(s) = Len(t)
    /\ \A i \in 1..Len(s) : s[i].id \in 1..Len(t) /\ s[i] = t[s[i].id]
    /\ \A i, j \in 1..Len(s) : i # j => s[i].id # s[j].id

\* C2: the ordering list() returns is a permutation of the catalog as
\* generated, and of two adjacent records the earlier one has the later or
\* the same date.
C2_ListIsSortedPermutation ==
    listCalls > 0 =>
        /\ IsPermutation(lastList, origLogs)
        /\ \A i \in 1..(Len(lastList) - 1) :
              ParseISOTime(lastList[i].date) >= ParseISOTime(lastList[i + 1].date)

\* a list() call that had to move records
C2_Witness ==
    /\ listCalls > 0
    /\ Len(lastList) = MaxLogs
    /\ lastList # origLogs
    /\ \E i \in 1..Len(lastList) : lastList[i].date # lastList[1].date

\* C3: in every ordering list() returns, on the first call and on later
\* ones, records with equal dates are in the order of the catalog as
\* generated.
C3_TiesKeepInputOrder ==
    listCalls > 0 =>
        \A i, j \in 1..Len(lastList) :
            (i < j /\ lastList[i].date = lastList[j].date)
                => lastList[i].id < lastList[j].id

\* a second call on a catalog with a tie that the first call had to move
C3_Witness ==
    /\ listCalls >= 2
    /\ lastList # origLogs
    /\ \E i, j \in 1..Len(lastList) : i < j /\ lastList[i].date = lastList[j].date

\* C4: two consecutive list() calls return the same ordering.
C4_ListIdempotent == listCalls >= 2 => lastList = prevList

\* two calls on an unsorted catalog with a tie
C4_Witness ==
    /\ listCalls = 2
    /\ prevList # origLogs
    /\ \E i, j \in 1..Len(origLogs) : i < j /\ origLogs[i].date = origLogs[j].date

\* C5: a LogPage render for a slug some record has shows a record with that
\* slug (the only one when the slug is unique); a render for a slug no
\* record has ends in the not-found outcome without reading any field of a
\* record.
C5_FindOrNotFound ==
    page.outcome # "idle" =>
        LET hits == { i \in 1..Len(allLogs) : allLogs[i].slug = page.arg }
        IN  /\ hits = {} =>
                  /\ page.outcome = "notFound"
                  /\ ~page.fieldsRead
                  /\ page.shown = 0
            /\ hits # {} =>
                  /\ page.outcome = "rendered"
                  /\ \E i \in hits : page.shown = allLogs[i].id
            /\ Cardinality(hits) = 1 =>
                  \A i \in hits : page.shown = allLogs[i].id

\* a miss on a catalog that is not empty
C5_Witness ==
    /\ page.outcome = "notFound"
    /\ page.arg = "missing"
    /\ Len(allLogs) > 0

\* no two records of the catalog have the same slug
UniqueSlugs(logs) ==
    \A i, j \in 1..Len(logs) : logs[i].slug = logs[j].slug => i = j

\* C26: on a catalog with unique slugs, after any number of listings a
\* lookup gives, for every slug, what it gives on the catalog as generated
\* (the same record or the same miss), and so does the lookup made last.
C26_FindUnaffectedByList ==
    UniqueSlugs(origLogs) =>
        /\ \A slug \in SlugArgs :
              LogPageRender(allLogs, slug) = LogPageRender(origLogs, slug)
        /\ page.outcome # "idle" => page = LogPageRender(origLogs, page.arg)

\* a lookup finds a record that two listings have moved from the first to
\* the second place
C26_Witness ==
    /\ UniqueSlugs(origLogs)
    /\ Len(origLogs) = 2
    /\ listCalls >= 2
    /\ allLogs # origLogs
    /\ page.outcome = "rendered"
    /\ page.shown = origLogs[1].id
    /\ allLogs[2] = origLogs[1]

\* C27: the calendar day the detail page shows for a record is the one
\* the listing shows for it.  (Refuted: the listing formats the instant in
\* UTC, the detail page in the zone of the process; west of UTC the detail
\* page shows the day before.)
C27_SameDayOnBothPages ==
    (page.outcome = "rendered" /\ listCalls > 0) =>
        \A i \in 1..Len(lastList) :
            lastList[i].id = page.shown => listDays[i] = pageDay

\* C19: a body that fails to render is replaced by the inline error
\* placeholder.  (Refuted: the try block of MDXContent covers
\* useMDXComponent and the creation of the element, not the rendering of
\* the component, whose exception leaves MDXContent uncaught.)
C19_BodyFailureCaught ==
    bodyView.code \in {"evalThrows", "renderThrows"}
        => bodyView.outcome = "placeholder"

(***************************************************************************)
(* Properties of the slug derivation (SpecSlug)                            *)
(***************************************************************************)

\* C6: distinct source documents get distinct slugs.  (Refuted: replace
\* removes the first 'logs/hover-3d-cards/' wherever it is, so
\* logs/hover-3d-cards/logs/a and logs/a both get the slug logs/a.)
C6_SlugsUnique ==
    \A p, q \in DOMAIN docSlug : p # q => docSlug[p] # docSlug[q]

(***************************************************************************)
(* Properties of the Card's pointer handlers (SpecCard)                    *)
(***************************************************************************)

\* C7: a pointer-move on a surface of zero width or zero height leaves the
\* neutral pose.  (Refuted: the handler divides by the width and the
\* height unguarded.)
C7_ZeroSizeNeutral ==
    (lastEvent.type = "move" /\ (lastEvent.width = 0 \/ lastEvent.height = 0))
        => mousePosition = Neutral

\* q is the rational num / den (den > 0)
IsRatio(q, num, den) == q.k = "fin" /\ q.n * den = q.d * num

\* C8: after a pointer-move on a surface of positive size the pose is
\* rotationX = ((py - top - h/2)/h)*10, rotationY = ((px - left - w/2)/w)*10,
\* localX = px - left, localY = py - top; on the 400x400 surface at the
\* origin with the pointer at (400, 200) it is {0, 5, 400, 200}.
C8_MovePose ==
    (lastEvent.type = "move" /\ lastEvent.width > 0 /\ lastEvent.height > 0) =>
        LET e == lastEvent
            lx == e.clientX - e.left
            ly == e.clientY - e.top
        IN  /\ IsRatio(mousePosition.x, 10 * (2 * ly - e.height), 2 * e.height)
            /\ IsRatio(mousePosition.y, 10 * (2 * lx - e.width), 2 * e.width)
            /\ mousePosition.mouseX = NumInt(lx)
            /\ mousePosition.mouseY = NumInt(ly)
            /\ (e.width = 400 /\ e.height = 400 /\ e.left = 0 /\ e.top = 0
                  /\ e.clientX = 400 /\ e.clientY = 200)
                 => mousePosition = [x |-> NumInt(0), y |-> NumInt(5),
                                     mouseX |-> NumInt(400), mouseY |-> NumInt(200)]

\* the scenario of the 400x400 surface
C8_Witness ==
    /\ lastEvent.type = "move"
    /\ lastEvent.width = 400 /\ lastEvent.height = 400
    /\ lastEvent.left = 0 /\ lastEvent.top = 0
    /\ lastEvent.clientX = 400 /\ lastEvent.clientY = 200
    /\ mousePosition.y = NumInt(5)

\* |q| <= bound
WithinMagnitude(q, bound) == q.k = "fin" /\ Abs(q.n) <= bound * q.d

\* C9: the rotation angles of every reachable pose have magnitude at most
\* 10.  Surfaces of zero width or height (C7) are set aside, so that the
\* refutation does not rest on them.  (Refuted: nothing clamps the angles;
\* a pointer further than one and a half widths from the surface's left
\* edge gives more than 10.)
C9_RotationClamped ==
    ~(lastEvent.type = "move" /\ (lastEvent.width = 0 \/ lastEvent.height = 0)) =>
        /\ WithinMagnitude(mousePosition.x, 10)
        /\ WithinMagnitude(mousePosition.y, 10)

\* C10: after a pointer-leave the pose is {0,0,0,0}, whatever it was before.
C10_LeaveNeutral == lastEvent.type = "leave" => mousePosition = Neutral

\* a pointer-leave from a pose with a NaN rotation and a pointer offset
C10_Witness ==
    /\ lastEvent.type = "leave"
    /\ prevPosition.x.k = "nan"
    /\ prevPosition.mouseX # Zero
    /\ mousePosition = Neutral

\* the four fields of a pose are zero
AllZero(pose) ==
    /\ pose.x = Zero /\ pose.y = Zero
    /\ pose.mouseX = Zero /\ pose.mouseY = Zero

\* C11: while the pointer is outside the card (no pointer-move since the
\* mount, or none since the latest pointer-leave) the four fields of the
\* pose are zero.
C11_NeutralWhileOutside ==
    lastEvent.type \in {"none", "leave"} => AllZero(mousePosition)

\* the pointer has left a card it had tilted
C11_Witness ==
    /\ lastEvent.type = "leave"
    /\ prevPosition.x.k = "fin" /\ prevPosition.x # Zero
    /\ prevPosition.mouseY # Zero
    /\ AllZero(mousePosition)

\* the state of the card, read off its pose
CardState(pose) == IF AllZero(pose) THEN "Neutral" ELSE "Tracking"

\* C12: the card is Neutral when mounted; a pointer-move leaves it
\* Tracking, from Neutral and from Tracking; a pointer-leave leaves it
\* Neutral.
C12_TwoStates ==
    /\ lastEvent.type = "none"  => CardState(mousePosition) = "Neutral"
    /\ lastEvent.type = "move"  => CardState(mousePosition) = "Tracking"
    /\ lastEvent.type = "leave" => CardState(mousePosition) = "Neutral"

\* a pointer-move at the centre of the surface of a card that was Tracking
C12_Witness ==
    /\ lastEvent.type = "move"
    /\ lastEvent.width > 0 /\ lastEvent.height > 0
    /\ mousePosition.x = Zero /\ mousePosition.y = Zero
    /\ CardState(prevPosition) = "Tracking"
    /\ CardState(mousePosition) = "Tracking"

\* the pointer of the event is at the centre of its surface
AtCentre(e) ==
    /\ e.type = "move"
    /\ e.width > 0 /\ e.height > 0
    /\ 2 * (e.clientX - e.left) = e.width
    /\ 2 * (e.clientY - e.top) = e.height

\* C20: a pointer-move at the exact centre of a surface of positive size
\* gives rotationX = rotationY = 0, localX = width/2 and localY = height/2.
C20_CentreIsLevel ==
    AtCentre(lastEvent) =>
        /\ mousePosition.x = Zero
        /\ mousePosition.y = Zero
        /\ IsRatio(mousePosition.mouseX, lastEvent.width, 2)
        /\ IsRatio(mousePosition.mouseY, lastEvent.height, 2)

\* the centre of the 4x400 surface, reached from a tilted pose
C20_Witness ==
    /\ AtCentre(lastEvent)
    /\ lastEvent.width = 4 /\ lastEvent.height = 400
    /\ prevPosition.x # Zero
    /\ mousePosition.mouseX = NumInt(2)
    /\ mousePosition.mouseY = NumInt(200)

\* the pointer of the event is on the surface, its edges included
InBounds(e) ==
    /\ e.type = "move"
    /\ e.width > 0 /\ e.height > 0
    /\ 0 <= e.clientX - e.left /\ e.clientX - e.left <= e.width
    /\ 0 <= e.clientY - e.top /\ e.clientY - e.top <= e.height

\* C22: for a pointer on a positive-size surface both target rotations
\* are within [-5, 5] (the offsets within [-1/2, 1/2]), and a rotation is
\* -5 or 5 exactly when the pointer is on the matching edge.
C22_InBoundsWithinFive ==
    InBounds(lastEvent) =>
        /\ WithinMagnitude(mousePosition.x, 5)
        /\ WithinMagnitude(mousePosition.y, 5)
        /\ mousePosition.x = NumInt(-5) <=> lastEvent.clientY - lastEvent.top = 0
        /\ mousePosition.x = NumInt(5) <=> lastEvent.clientY - lastEvent.top = lastEvent.height
        /\ mousePosition.y = NumInt(-5) <=> lastEvent.clientX - lastEvent.left = 0
        /\ mousePosition.y = NumInt(5) <=> lastEvent.clientX - lastEvent.left = lastEvent.width

\* the pointer on the right edge, half way down, of a 400x400 surface
C22_Witness ==
    /\ InBounds(lastEvent)
    /\ lastEvent.width = 400 /\ lastEvent.height = 400
    /\ lastEvent.clientX - lastEvent.left = 400
    /\ mousePosition.y = NumInt(5)
    /\ mousePosition.x = Zero

\* C25: unless the last event is a pointer-move over a zero-size surface,
\* the pose is all zero exactly when no event was handled yet or the last
\* event is a pointer-leave; after a pointer-move over a positive-size
\* surface a zero rotationY comes with localX = width / 2, which is not 0.
C25_NeutralIffOutside ==
    /\ ~(lastEvent.type = "move" /\ (lastEvent.width <= 0 \/ lastEvent.height <= 0)) =>
          (AllZero(mousePosition) <=> lastEvent.type \in {"none", "leave"})
    /\ (lastEvent.type = "move" /\ lastEvent.width > 0 /\ lastEvent.height > 0
            /\ mousePosition.y = Zero) =>
          /\ IsRatio(mousePosition.mouseX, lastEvent.width, 2)
          /\ mousePosition.mouseX # Zero

\* a pointer-move to the centre of a 4x4 surface, right after a leave
C25_Witness ==
    /\ lastEvent.type = "move"
    /\ lastEvent.width = 4 /\ lastEvent.height = 4
    /\ prevPosition = Neutral
    /\ mousePosition.x = Zero /\ mousePosition.y = Zero
    /\ mousePosition.mouseX = NumInt(2) /\ mousePosition.mouseY = NumInt(2)

(***************************************************************************)
(* Properties of Home (SpecHome)                                           *)
(***************************************************************************)

\* C18: a pointer event delivered to one Card leaves the pose of every
\* other mounted Card as it was.
C18_PoseOwnedByCard ==
    \A c \in CardIds : c # lastCard => cards[c] = prevCards[c]

\* an event changes the pose of one Card while the two others hold
\* different tilted poses
C18_Witness ==
    /\ lastCard = "accent"
    /\ cards["accent"] # prevCards["accent"]
    /\ cards["default"] # Neutral
    /\ cards["dark"] # Neutral
    /\ cards["dark"] # cards["default"]
    /\ cards["accent"] # cards["default"]

\* C24: two Cards whose last pointer events are equal (same kind, same
\* pointer, same rectangle) hold equal poses, whatever each of them
\* handled before.
C24_PoseFromLastEvent ==
    \A c, d \in CardIds : cardEvents[c] = cardEvents[d] => cards[c] = cards[d]

\* two Cards after the same pointer-move, one of them moved from another
\* pose by the latest event, the other one having handled it earlier
C24_Witness ==
    /\ lastCard = "accent"
    /\ cardEvents["accent"].type = "move"
    /\ cardEvents["accent"] = cardEvents["dark"]
    /\ prevCards["accent"] # Neutral
    /\ prevCards["accent"] # cards["accent"]
    /\ cards["accent"] = cards["dark"]
    /\ cardEvents["default"].type = "leave"

(***************************************************************************)
(* Properties of the Card on screen (SpecMotion, SpecMotionLive)           *)
(***************************************************************************)

\* C17: the shadow the Card renders has the horizontal offset rotationX / 10
\* and the vertical offset rotationY / 10, the blur 20 and the shadow
\* colour of the variant.
C17_ShadowFromRotation ==
    /\ rendered.shadowX = JsDiv(rendered.rotateX, NumInt(10))
    /\ rendered.shadowY = JsDiv(rendered.rotateY, NumInt(10))
    /\ rendered.shadowBlur = 20
    /\ rendered.shadowColor = variantConfigs[variant].shadowColor

\* C13: whenever the event dispatched last is a pointer-leave, the target
\* pose is neutral, whatever moves, renders and frames came before it, and
\* once React has re-rendered the animate targets are zero.
C13_FinalLeaveProcessed ==
    lastEvent.type = "leave" =>
        /\ AllZero(mousePosition)
        /\ ~renderPending =>
              /\ rendered.rotateX = Zero /\ rendered.rotateY = Zero
              /\ displayed.rotateX.to = Zero /\ displayed.rotateY.to = Zero

\* a leave right after a move that was never rendered, while the Card is
\* still animating towards an earlier target
C13_Witness ==
    /\ lastStep = "leave"
    /\ eventCount = MaxEvents
    /\ AllZero(mousePosition)
    /\ ~AllZero(prevPosition)
    /\ rendered.rotateX # Zero
    /\ rendered # View(prevPosition, variant, icon)
    /\ Animating(displayed)

AtRestNeutral ==
    /\ displayed.rotateX = AtValue(Zero)
    /\ displayed.rotateY = AtValue(Zero)

\* C14: a pointer-leave sets the target to neutral and changes no rotation
\* on screen; the render that follows it changes no rotation on screen
\* either; and after a leave the rotations come to rest at zero unless a
\* pointer-move arrives first.
C14_LeaveAnimatesBack ==
    /\ [][lastStep' = "leave" =>
            mousePosition' = Neutral /\ displayed' = displayed]_vars
    /\ [][(lastStep' = "render" /\ lastEvent.type = "leave") =>
            /\ displayed'.rotateX.value = displayed.rotateX.value
            /\ displayed'.rotateY.value = displayed.rotateY.value]_vars
    /\ (lastEvent.type = "leave") ~> (AtRestNeutral \/ lastEvent.type # "leave")

\* the pointer has left a Card that is shown tilted
C14_Witness ==
    /\ lastStep = "leave"
    /\ mousePosition = Neutral
    /\ displayed.rotateX.value # Zero
    /\ displayed.rotateY.value # Zero
    /\ Animating(displayed)

\* what is on screen: the two animated rotations and the two overlays
Rotation == <<displayed.rotateX.value, displayed.rotateY.value>>
Overlays == <<rendered.spotX, rendered.spotY, rendered.angle>>

\* C15 as stated: a pointer event changes nothing on screen, and whatever
\* changes on screen changes on an animation frame.
C15_OnlyFramesChangeShown ==
    [][/\ lastStep' \in {"move", "leave"} =>
            Rotation' = Rotation /\ Overlays' = Overlays
       /\ (Rotation' # Rotation \/ Overlays' # Overlays) => lastStep' = "frame"]_vars

\* C15 (amended): a pointer event changes nothing on screen; the animated
\* rotations change on animation frames only; the overlays change only on
\* the re-render after the event.
C15_EventsOnlySetTarget ==
    [][/\ lastStep' \in {"move", "leave"} =>
            displayed' = displayed /\ rendered' = rendered
       /\ Rotation' # Rotation => lastStep' = "frame"
       /\ Overlays' # Overlays => lastStep' = "render"]_vars

\* a pointer-move has set a new target while the Card shows another
\* rotation and is still animating
C15_Witness ==
    /\ lastStep = "move"
    /\ renderPending
    /\ Animating(displayed)
    /\ mousePosition.x # rendered.rotateX
    /\ mousePosition.x # displayed.rotateX.value
    /\ mousePosition.mouseX # rendered.spotX

\* C16 as stated: at every frame the depth highlight is turned by ten
\* times the rotation shown on screen.
C16_OverlaysFromDisplayed ==
    lastStep = "frame" => rendered.angle = JsMul(displayed.rotateX.value, NumInt(10))

\* C16 (amended): once React has re-rendered, the spotlight is centred at
\* the target (localX, localY) and the depth highlight is turned by ten
\* times the target rotationX, wherever the animated rotation is.
C16_OverlaysFromTarget ==
    ~renderPending =>
        /\ rendered.spotX = mousePosition.mouseX
        /\ rendered.spotY = mousePosition.mouseY
        /\ rendered.angle = JsMul(mousePosition.x, NumInt(10))

\* a frame in the middle of an animation: the overlays are at the target
\* and the rotation shown is not
C16_Witness ==
    /\ lastStep = "frame"
    /\ ~renderPending
    /\ Animating(displayed)
    /\ mousePosition.x # Zero
    /\ mousePosition.mouseX # Zero
    /\ displayed.rotateX.value # mousePosition.x
    /\ rendered.angle = JsMul(mousePosition.x, NumInt(10))
    /\ rendered.angle # JsMul(displayed.rotateX.value, NumInt(10))

\* C21: a Card with an icon renders an icon layer whose targets are the
\* vertical translation rotationX * 2 and the rotation rotationY * 2, on a
\* spring of stiffness 200 and damping 15 whatever the variant; a Card
\* without an icon renders no icon layer.
C21_IconLayer ==
    /\ icon =>
          /\ rendered.iconLayer.present
          /\ rendered.iconLayer.y = JsMul(rendered.rotateX, NumInt(2))
          /\ rendered.iconLayer.rotateZ = JsMul(rendered.rotateY, NumInt(2))
          /\ rendered.iconLayer.stiffness = 200
          /\ rendered.iconLayer.damping = 15
    /\ ~icon => ~rendered.iconLayer.present

\* a tilted Card of the dark variant with an icon
C21_Witness ==
    /\ icon
    /\ variant = "dark"
    /\ lastStep = "render"
    /\ rendered.rotateX # rendered.rotateY
    /\ rendered.iconLayer.y = NumInt(-10)
    /\ rendered.iconLayer.rotateZ = Zero
    /\ rendered.stiffness # rendered.iconLayer.stiffness

\* C23: the spring of the card body is the one bound to the selected
\* variant, the selected variant is one of default, accent and dark, a
\* Card without a variant prop works as default, and the stiffness of
\* accent is above that of default, which is above that of dark.
C23_SpringOfVariant ==
    /\ variant \in {"default", "accent", "dark"}
    /\ variant = (IF variantProp = "omitted" THEN "default" ELSE variantProp)
    /\ rendered.stiffness = variantConfigs[variant].stiffness
    /\ rendered.damping = variantConfigs[variant].damping
    /\ variantConfigs["accent"].stiffness > variantConfigs["default"].stiffness
    /\ variantConfigs["default"].stiffness > variantConfigs["dark"].stiffness

\* a Card mounted without a variant prop, rendered after a pointer-move
C23_Witness ==
    /\ variantProp = "omitted"
    /\ lastStep = "render"
    /\ lastEvent.type = "move"
    /\ rendered.rotateX # Zero
    /\ rendered.stiffness = 300
    /\ rendered.damping = 20

====
